---- MODULE Spec2Model ----
(***************************************************************************)
(* LoRAFactory logging server (src/log_server.py).                         *)
(*                                                                         *)
(* A single-threaded HTTPServer dispatches each request to LogHandler.     *)
(* The model keeps the log directory (file name -> text), the clock's day, *)
(* the path cached in LOG_FILE at import, and the last request with the    *)
(* response the handler produced for it.                                   *)
(*                                                                         *)
(* Text is a sequence of characters; a character is a one-token string, so *)
(* a newline inside a field is visible in the file as a line break.        *)
(***************************************************************************)
EXTENDS Integers, Sequences, FiniteSets, TLC

(***************************************************************************)
(* Bounds of the exploration.                                              *)
(***************************************************************************)
MaxRequests == 2
MaxDay == 1

(***************************************************************************)
(* Characters that matter to the handler.                                  *)
(***************************************************************************)
NL == "\n"
SURROGATE == "<U+D800>"

\* Number of newline-terminated lines of a text.
CountNL(text) == Cardinality({ i \in 1..Len(text) : text[i] = NL })

(***************************************************************************)
(* JSON values as json.loads builds them.  A value is a record             *)
(*   t     : "object" | "array" | "int" | "float" | "str" | "bool" | "null"*)
(*   n     : the integer of an int or bool                                 *)
(*   s     : the characters of a str (or the repr of a float)              *)
(*   pairs : the (key, value) pairs of an object, in document order        *)
(***************************************************************************)
JInt(n) == [t |-> "int", n |-> n, s |-> <<>>, pairs |-> <<>>]
JFloat(repr) == [t |-> "float", n |-> 0, s |-> repr, pairs |-> <<>>]
JStr(s) == [t |-> "str", n |-> 0, s |-> s, pairs |-> <<>>]
JBool(b) == [t |-> "bool", n |-> IF b THEN 1 ELSE 0, s |-> <<>>, pairs |-> <<>>]
JNull == [t |-> "null", n |-> 0, s |-> <<>>, pairs |-> <<>>]
JArray == [t |-> "array", n |-> 0, s |-> <<>>, pairs |-> <<>>]
JObject(pairs) == [t |-> "object", n |-> 0, s |-> <<>>, pairs |-> pairs]
Pair(k, v) == [k |-> k, v |-> v]

(***************************************************************************)
(* Request bodies as sent on the wire.                                     *)
(***************************************************************************)
BodyBadUtf8 == "<ff fe>"
BodyNotJson == "not json"
BodyArray == "[1]"
BodyNumber == "5"
BodyEmptyObject == "{}"
BodyHello == "{\"timestamp\":90061001,\"type\":\"INFO\",\"msg\":\"hello\"}"
BodyTsString == "{\"timestamp\":\"x\"}"
BodyTsHuge == "{\"timestamp\":1e20}"
BodyTypeNewline == "{\"type\":\"a\\nb\"}"
BodyTypeSurrogate == "{\"type\":\"\\ud800\"}"
BodyTypeNumber == "{\"timestamp\":-5,\"type\":5}"

Bodies ==
    { BodyBadUtf8, BodyNotJson, BodyArray, BodyNumber,
      BodyEmptyObject, BodyHello, BodyTsString, BodyTsHuge,
      BodyTypeNewline, BodyTypeSurrogate, BodyTypeNumber }

\* post_data.decode('utf-8'): raises UnicodeDecodeError on invalid bytes.
DecodeRaises(body) == body = BodyBadUtf8

\* json.loads raises JSONDecodeError on text that is not a JSON document.
LoadsRaises(text) == text = BodyNotJson

\* json.loads on the documents above.
Loads(text) ==
    CASE text = BodyArray -> JArray
      [] text = BodyNumber -> JInt(5)
      [] text = BodyEmptyObject -> JObject(<<>>)
      [] text = BodyHello ->
            JObject(<< Pair("timestamp", JInt(90061001)),
                       Pair("type", JStr(<<"I", "N", "F", "O">>)),
                       Pair("msg", JStr(<<"h", "e", "l", "l", "o">>)) >>)
      [] text = BodyTsString -> JObject(<< Pair("timestamp", JStr(<<"x">>)) >>)
      [] text = BodyTsHuge -> JObject(<< Pair("timestamp", JFloat(<<"1e+20">>)) >>)
      [] text = BodyTypeNewline ->
            JObject(<< Pair("type", JStr(<<"a", NL, "b">>)) >>)
      [] text = BodyTypeSurrogate ->
            JObject(<< Pair("type", JStr(<<SURROGATE>>)) >>)
      [] text = BodyTypeNumber ->
            JObject(<< Pair("timestamp", JInt(0 - 5)), Pair("type", JInt(5)) >>)
      [] OTHER -> JNull

(***************************************************************************)
(* dict.get, str() and json.dumps.                                         *)
(***************************************************************************)
\* log_entry.get raises AttributeError unless log_entry is a dict.
GetRaises(entry) == entry.t # "object"

HasKey(entry, key) == \E i \in 1..Len(entry.pairs) : entry.pairs[i].k = key

\* log_entry[key] without a default.
GetNoDefault(entry, key, default) ==
    IF HasKey(entry, key)
    THEN entry.pairs[CHOOSE i \in 1..Len(entry.pairs) : entry.pairs[i].k = key].v
    ELSE JNull
Get(entry, key, default) ==
    IF HasKey(entry, key)
    THEN entry.pairs[CHOOSE i \in 1..Len(entry.pairs) : entry.pairs[i].k = key].v
    ELSE default

\* Decimal digits of a non-negative integer, one character per digit.
RECURSIVE Digits(_)
Digits(n) ==
    IF n < 10 THEN <<ToString(n)>> ELSE Digits(n \div 10) \o <<ToString(n % 10)>>

IntText(n) == IF n < 0 THEN <<"-">> \o Digits(0 - n) ELSE Digits(n)

Chars(word) ==
    CASE word = "timestamp" -> <<"t", "i", "m", "e", "s", "t", "a", "m", "p">>
      [] word = "type" -> <<"t", "y", "p", "e">>
      [] word = "msg" -> <<"m", "s", "g">>
      [] word = "UNKNOWN" -> <<"U", "N", "K", "N", "O", "W", "N">>
      [] OTHER -> <<word>>

\* The text an f-string puts in place of {value}: a str as it is, unescaped.
Format(v) ==
    CASE v.t = "str" -> v.s
      [] v.t = "int" -> IntText(v.n)
      [] v.t = "bool" -> IF v.n = 1 THEN <<"True">> ELSE <<"False">>
      [] v.t = "float" -> v.s
      [] v.t = "null" -> <<"None">>
      [] OTHER -> <<"[...]">>

\* json.dumps escapes control characters and, with ensure_ascii, non-ASCII.
EscapeChar(c) ==
    CASE c = NL -> <<"\\", "n">>
      [] c = SURROGATE -> <<"\\", "u", "d", "8", "0", "0">>
      [] OTHER -> <<c>>

RECURSIVE Escape(_)
Escape(s) == IF s = <<>> THEN <<>> ELSE EscapeChar(Head(s)) \o Escape(Tail(s))

DumpsString(s) == <<"\"">> \o Escape(s) \o <<"\"">>

DumpsScalar(v) ==
    CASE v.t = "str" -> DumpsString(v.s)
      [] v.t = "int" -> IntText(v.n)
      [] v.t = "bool" -> IF v.n = 1 THEN <<"true">> ELSE <<"false">>
      [] v.t = "float" -> v.s
      [] v.t = "null" -> <<"null">>
      [] OTHER -> <<"[...]">>

RECURSIVE DumpsPairs(_)
DumpsPairs(pairs) ==
    IF pairs = <<>> THEN <<>>
    ELSE DumpsString(Chars(Head(pairs).k)) \o <<":", " ">> \o DumpsScalar(Head(pairs).v)
         \o (IF Tail(pairs) = <<>> THEN <<>> ELSE <<",", " ">> \o DumpsPairs(Tail(pairs)))

Dumps(v) ==
    IF v.t = "object" THEN <<"{">> \o DumpsPairs(v.pairs) \o <<"}">>
    ELSE DumpsScalar(v)

(***************************************************************************)
(* datetime.fromtimestamp(ms / 1000).strftime('%Y-%m-%d %H:%M:%S.%f')[:-3] *)
(***************************************************************************)
\* Offset of local time from UTC, in seconds.
TzOffset == 0

\* `/ 1000` raises TypeError unless the operand is a number (bool included).
DivideRaises(v) == v.t \notin {"int", "bool"} /\ v.t # "float"

\* fromtimestamp raises OverflowError/ValueError beyond year 9999.
FromTimestampRaises(v) == v.t = "float"

Pad(n, width) ==
    LET d == Digits(n)
    IN  [i \in 1..(width - Len(d)) |-> "0"] \o d

\* Civil date of a day count since 1970-01-01 (proleptic Gregorian).
CivilDate(day) ==
    LET z == day + 719468
        era == z \div 146097
        doe == z - era * 146097
        yoe == (doe - doe \div 1460 + doe \div 36524 - doe \div 146096) \div 365
        doy == doe - (365 * yoe + yoe \div 4 - yoe \div 100)
        mp == (5 * doy + 2) \div 153
        d == doy - (153 * mp + 2) \div 5 + 1
        m == IF mp < 10 THEN mp + 3 ELSE mp - 9
        y == yoe + era * 400 + (IF m <= 2 THEN 1 ELSE 0)
    IN  [year |-> y, month |-> m, day |-> d]

FormatTimestamp(ms) ==
    LET sec == ms \div 1000 + TzOffset
        millis == ms % 1000
        sod == sec % 86400
        date == CivilDate(sec \div 86400)
    IN  Pad(date.year, 4) \o <<"-">> \o Pad(date.month, 2) \o <<"-">>
        \o Pad(date.day, 2) \o <<" ">>
        \o Pad(sod \div 3600, 2) \o <<":">> \o Pad((sod % 3600) \div 60, 2)
        \o <<":">> \o Pad(sod % 60, 2) \o <<".">> \o Pad(millis, 3)

(***************************************************************************)
(* The line do_POST writes for a parsed entry.                             *)
(***************************************************************************)
TypeText(log_type) == Format(log_type)

LogLine(entry) ==
    <<"[">> \o FormatTimestamp(Get(entry, "timestamp", JInt(0)).n)
    \o <<"]", " ", "[">> \o TypeText(Get(entry, "type", JStr(Chars("UNKNOWN"))))
    \o <<"]", " ">> \o Dumps(entry) \o <<NL>>

\* f.write on a file opened with encoding='utf-8' raises UnicodeEncodeError
\* on a lone surrogate, before anything reaches the file.
EncodeRaises(text) == \E i \in 1..Len(text) : text[i] = SURROGATE

(***************************************************************************)
(* LOG_FILE = os.path.join(LOG_DIR, f"lorafactory_{now:%Y%m%d}.log")       *)
(* Days are counted from 1970-01-01.                                       *)
(***************************************************************************)
Days == 0..MaxDay

LogFileName(day) ==
    LET date == CivilDate(day)
    IN  <<"logs", "/", "lorafactory_">> \o Pad(date.year, 4) \o Pad(date.month, 2)
        \o Pad(date.day, 2) \o <<".log">>

FileNames == { LogFileName(d) : d \in Days }

\* The path do_POST opens: the module-level LOG_FILE, whatever the clock says.
LogPathRecomputed(cached, now) == LogFileName(now)
LogPath(cached, now) == cached

\* A line left in the day's file by an earlier run of the server.
EarlierLine == LogLine(JObject(<<>>))

(***************************************************************************)
(* Requests and responses.                                                 *)
(***************************************************************************)
Methods == {"POST", "OPTIONS", "GET", "HEAD", "PUT"}
Paths == {"/log", "/log?x=1", "/other"}
\* The Content-Length header: absent, not a number, or the body's length.
ContentLengths == {"missing", "nonnumeric", "correct"}

Request(method, path, cl, body, fsOK, sendOK, day) ==
    [method |-> method, path |-> path, cl |-> cl, body |-> body,
     fsOK |-> fsOK, sendOK |-> sendOK, day |-> day]

\* send_response adds the Server and Date headers to every response.
BaseHeaders == { <<"Server", "BaseHTTP">>, <<"Date", "now">> }

\* status 0: the handler raised before it sent anything.
\* raised: the step of do_POST whose exception ended the normal path.
Response(status, headers, body, raised) ==
    [status |-> status, headers |-> BaseHeaders \cup headers, body |-> body,
     raised |-> raised]

NoResponse(raised) ==
    [status |-> 0, headers |-> {}, body |-> <<>>, raised |-> raised]

StatusOkBody == <<"{", "\"", "status", "\"", ":", "\"", "ok", "\"", "}">>

SuccessResponse ==
    Response(200, { <<"Access-Control-Allow-Origin", "*">>,
                    <<"Content-Type", "application/json">> }, StatusOkBody, "none")

ErrorResponse(raised) == Response(500, {}, <<>>, raised)

NotFoundResponse == Response(404, {}, <<>>, "none")

OptionsResponseNoAllowHeaders ==
    Response(200, { <<"Access-Control-Allow-Origin", "*">>,
                    <<"Access-Control-Allow-Methods", "POST, OPTIONS">> }, <<>>, "none")
OptionsResponse ==
    Response(200, { <<"Access-Control-Allow-Origin", "*">>,
                    <<"Access-Control-Allow-Methods", "POST, OPTIONS">>,
                    <<"Access-Control-Allow-Headers", "Content-Type">> }, <<>>, "none")

\* BaseHTTPRequestHandler.send_error(501) for a method without a do_ method:
\* an HTML error page, omitted for HEAD.
UnsupportedResponse(method) ==
    Response(501, { <<"Content-Type", "text/html;charset=utf-8">>,
                    <<"Connection", "close">> },
             IF method = "HEAD" THEN <<>> ELSE <<"<html>", "501", "</html>">>, "none")

IsLogPathIgnoringQuery(path) == path \in {"/log", "/log?x=1"}
IsLogPath(path) == path = "/log"

\* int(self.headers['Content-Length']): TypeError on None, ValueError on text.
ContentLengthRaises(cl) == cl # "correct"

(***************************************************************************)
(* The try block of do_POST up to the write: the step that raises, or      *)
(* "none".                                                                 *)
(***************************************************************************)
RaisedBeforeWrite(body, fsOK) ==
    IF DecodeRaises(body) THEN "decode"
    ELSE IF LoadsRaises(body) THEN "loads"
    ELSE IF GetRaises(Loads(body)) THEN "get"
    ELSE IF DivideRaises(Get(Loads(body), "timestamp", JInt(0))) THEN "divide"
    ELSE IF FromTimestampRaises(Get(Loads(body), "timestamp", JInt(0)))
         THEN "fromtimestamp"
    ELSE IF ~fsOK THEN "open"
    ELSE IF EncodeRaises(LogLine(Loads(body))) THEN "write"
    ELSE "none"

\* do_POST: the response and the content of the log file afterwards.
HandlePost(path, cl, body, fsOK, sendOK, content) ==
    IF ~IsLogPath(path)
    THEN [resp |-> NotFoundResponse, content |-> content]
    ELSE IF ContentLengthRaises(cl)
    THEN [resp |-> NoResponse("content-length"), content |-> content]
    ELSE IF RaisedBeforeWrite(body, fsOK) # "none"
    THEN [resp |-> ErrorResponse(RaisedBeforeWrite(body, fsOK)), content |-> content]
    \* The line is in the file.  A write to a client that has gone raises
    \* inside the try block, and the except branch answers 500.
    ELSE IF ~sendOK
    THEN [resp |-> ErrorResponse("send"),
          content |-> content \o LogLine(Loads(body))]
    ELSE [resp |-> SuccessResponse, content |-> content \o LogLine(Loads(body))]

\* socketserver's handle_error reports an exception that escaped a handler
\* and serve_forever goes on to the next request.
HandleErrorStops(resp) == resp.status # 0
HandleError(resp) == TRUE

(***************************************************************************)
(* State.                                                                  *)
(***************************************************************************)
VARIABLES
    today,        \* the clock's day
    LOG_FILE,     \* the path computed at import
    files,        \* the logs directory: file name -> text
    serving,      \* serve_forever is running
    served,       \* number of requests handled
    req,          \* the last request
    resp,         \* the response to it
    before,       \* files before the last request
    startDay,     \* the day the process started
    initial,      \* the content of the log file at start
    accepted,     \* the lines of the requests answered 200, in order
    prevStatus    \* the status of the response before the last one

vars == <<today, LOG_FILE, files, serving, served, req, resp, before,
          startDay, initial, accepted, prevStatus>>

NoRequest == Request("NONE", "", "missing", "", TRUE, TRUE, 0)

NoStatus == 0 - 1

Init ==
    /\ today \in Days
    /\ startDay = today
    /\ LOG_FILE = LogFileName(today)
    /\ initial \in { <<>>, EarlierLine }
    /\ files = [f \in FileNames |-> IF f = LOG_FILE THEN initial ELSE <<>>]
    /\ serving = TRUE
    /\ served = 0
    /\ req = NoRequest
    /\ resp = NoResponse("none")
    /\ before = files
    /\ accepted = <<>>
    /\ prevStatus = NoStatus

\* What every request does to the bookkeeping.
Record(r, out) ==
    /\ req' = r
    /\ resp' = out
    /\ before' = files
    /\ served' = served + 1
    /\ serving' = HandleError(out)
    /\ prevStatus' = IF served = 0 THEN NoStatus ELSE resp.status
    /\ UNCHANGED <<today, LOG_FILE, startDay, initial>>

do_POST(path, cl, body, fsOK, sendOK) ==
    LET target == LogPath(LOG_FILE, today)
        out == HandlePost(path, cl, body, fsOK, sendOK, files[target])
    IN  /\ serving
        /\ served < MaxRequests
        /\ files' = [files EXCEPT ![target] = out.content]
        /\ accepted' = IF out.resp.status = 200
                       THEN accepted \o LogLine(Loads(body)) ELSE accepted
        /\ Record(Request("POST", path, cl, body, fsOK, sendOK, today), out.resp)

do_OPTIONS(path) ==
    /\ serving
    /\ served < MaxRequests
    /\ UNCHANGED <<files, accepted>>
    /\ Record(Request("OPTIONS", path, "missing", "", TRUE, TRUE, today), OptionsResponse)

\* handle_one_request for a method LogHandler does not define.
Unsupported(method, path) ==
    /\ serving
    /\ served < MaxRequests
    /\ UNCHANGED <<files, accepted>>
    /\ Record(Request(method, path, "missing", "", TRUE, TRUE, today),
              UnsupportedResponse(method))

\* The clock passes midnight.
Midnight ==
    /\ today < MaxDay
    /\ today' = today + 1
    /\ UNCHANGED <<LOG_FILE, files, serving, served, req, resp, before,
                   startDay, initial, accepted, prevStatus>>

\* The environment of one request: the log file can be opened for append
\* (fsOK) and the client still reads when the response is sent (sendOK).
Environments == { <<TRUE, TRUE>>, <<FALSE, TRUE>>, <<TRUE, FALSE>> }

\* Off the ingestion path do_POST looks at nothing but the path.
PostInputs ==
    { <<path, cl, body, env>> \in Paths \X ContentLengths \X Bodies \X Environments :
        IsLogPath(path) \/ (body \in {BodyNotJson, BodyEmptyObject} /\ env = <<TRUE, TRUE>>) }

Next ==
    \/ \E in \in PostInputs : do_POST(in[1], in[2], in[3], in[4][1], in[4][2])
    \/ \E path \in Paths : do_OPTIONS(path)
    \/ \E method \in Methods \ {"POST", "OPTIONS"}, path \in Paths :
            Unsupported(method, path)
    \/ Midnight

Spec == Init /\ [][Next]_vars

(***************************************************************************)
(* Properties.                                                             *)
(***************************************************************************)
IsPostLog == req.method = "POST" /\ req.path = "/log"
LogText == files[LogFileName(startDay)]
LogTextBefore == before[LogFileName(startDay)]
EmptyBody == resp.body = <<>>
ParsesAsJson(body) == ~DecodeRaises(body) /\ ~LoadsRaises(body)

\* A JSON object whose timestamp is absent or a number datetime accepts and
\* whose type renders as text that UTF-8 can encode.
IsLoggableEvent(body) ==
    /\ ParsesAsJson(body)
    /\ Loads(body).t = "object"
    /\ HasKey(Loads(body), "timestamp")
          => Get(Loads(body), "timestamp", JInt(0)).t \in {"int", "bool"}
    /\ HasKey(Loads(body), "type")
          => \A i \in 1..Len(Format(Get(Loads(body), "type", JNull))) :
                Format(Get(Loads(body), "type", JNull))[i] # SURROGATE

\* C1 as stated: every valid JSON body posted to /log with a correct
\* Content-Length is answered 200 with body {"status":"ok"}.
C1_AnyJsonAnswered200 ==
    (IsPostLog /\ req.cl = "correct" /\ ParsesAsJson(req.body))
        => (resp.status = 200 /\ resp.body = StatusOkBody)

\* C1 amended: a JSON object with a usable timestamp and an encodable type,
\* posted to /log with a correct Content-Length while the log file can be
\* appended to and the client reads the response, is answered 200 with body
\* {"status":"ok"}.
C1_LoggableEventAnswered200 ==
    (IsPostLog /\ req.cl = "correct" /\ IsLoggableEvent(req.body)
       /\ req.fsOK /\ req.sendOK)
        => (resp.status = 200 /\ resp.body = StatusOkBody)

C1_Witness ==
    /\ IsPostLog /\ req.cl = "correct" /\ req.body = BodyEmptyObject
    /\ req.fsOK /\ req.sendOK /\ resp.status = 200

\* C2: a POST to /log whose body does not parse as JSON is answered 500 with
\* an empty body and leaves the log file as it was.
C2_UnparsableAnswered500 ==
    (IsPostLog /\ ~ParsesAsJson(req.body))
        => (resp.status = 500 /\ EmptyBody /\ files = before)

C4_RaiseAnswered500 ==
    (IsPostLog /\ resp.raised # "none") => (resp.status = 500 /\ EmptyBody)

\* C5: a POST to /log answered 200 adds exactly one newline-terminated line
\* to the log file.
C5_OneLinePerAccepted ==
    (IsPostLog /\ resp.status = 200)
        => CountNL(LogText) = CountNL(LogTextBefore) + 1

\* C6: the log file is its content at start followed by the lines of the
\* requests answered 200, in the order they were submitted.
C6_FileIsAcceptedLines == LogText = initial \o accepted

\* C7: every OPTIONS request is answered 200 with the three CORS headers
\* and an empty body, on every path.
C7_OptionsAnswered200 ==
    req.method = "OPTIONS"
        => /\ resp.status = 200
           /\ { <<"Access-Control-Allow-Origin", "*">>,
                <<"Access-Control-Allow-Methods", "POST, OPTIONS">>,
                <<"Access-Control-Allow-Headers", "Content-Type">> } \subseteq resp.headers
           /\ EmptyBody

C7_Witness == req.method = "OPTIONS" /\ req.path = "/other" /\ resp.status = 200

\* C8: the log file path is the one of the start day in every state, and
\* no request writes to any other file, also after midnight.
C8_PathFixedAtStart ==
    /\ LOG_FILE = LogFileName(startDay)
    /\ \A f \in FileNames \ {LogFileName(startDay)} : files[f] = <<>>

C8_Witness ==
    /\ req.day # startDay /\ IsPostLog /\ resp.status = 200
    /\ LogText = LogTextBefore \o LogLine(Loads(req.body))

\* C9: the log file changes only through a POST to /log answered 200.
C9_ChangeOnlyOn200 ==
    files # before => (IsPostLog /\ resp.status = 200)

\* C10: the server keeps serving after a failed request, and a loggable
\* event posted after a failure is answered 200 and appended.
C10_ServesAfterFailure ==
    /\ serving
    /\ (prevStatus \notin {NoStatus, 200} /\ IsPostLog /\ req.cl = "correct"
          /\ IsLoggableEvent(req.body) /\ req.fsOK /\ req.sendOK)
        => /\ resp.status = 200
           /\ LogText = LogTextBefore \o LogLine(Loads(req.body))

C10_Witness ==
    /\ prevStatus = 0 /\ IsPostLog /\ resp.status = 200
    /\ LogText = LogTextBefore \o LogLine(Loads(req.body))

====
